---- MODULE Spec2Model ----
(***************************************************************************)
(* Model of brainrender_napari/widgets/atlas_manager_view.py:              *)
(* AtlasManagerView, a table view that lets the user download and update   *)
(* atlases.  The state is the view's fields (current index, the two cached *)
(* status attributes), the open confirmation dialogs, the thread workers   *)
(* started by the view, the state of the atlas API the view queries, and   *)
(* the signals the view emits.                                             *)
(***************************************************************************)
EXTENDS Integers, Sequences, FiniteSets, Bags, TLC

\* ------------------------------------------------------------------ bounds
MaxWorkers == 2     \* workers running, plus dialogs open, at the same time
MaxCalls == 2       \* progress callbacks made by the running operations

\* ------------------------------------------------------- names and values
\* Rows of the table: the atlases get_all_atlases_lastversions() knows.
AllAtlases == {"allen_mouse_100um", "example_mouse_100um"}
\* A name the atlas API does not know.
UnknownAtlases == {"no_such_atlas"}
AtlasNames == AllAtlases \cup UnknownAtlases
\* selectionModel().currentIndex() when it is not valid.
InvalidIndex == "<invalid index>"

VARIABLES
    downloaded,                 \* atlas API: what get_downloaded_atlases() returns
    lastversions,               \* atlas API: what get_atlases_lastversions() returns
    current,                    \* selectionModel().currentIndex(), as the row's raw name
    cached_downloaded_atlases,  \* << >> while the attribute is not set, else <<value>>
    cached_atlas_versions,      \* << >> while the attribute is not set, else <<value>>
    dialogs,                    \* bag of the open AtlasManagerDialogs, each [atlas_name, action]
    workers,                    \* bag of the running thread workers created by _start_worker
    emitted,                    \* the signals the view emitted in the last step, in order
    last                        \* what the last step did, and how it ended

vars == <<downloaded, lastversions, current, cached_downloaded_atlases,
          cached_atlas_versions, dialogs, workers, emitted, last>>

api == <<downloaded, lastversions>>
cache == <<cached_downloaded_atlases, cached_atlas_versions>>

\* ------------------------------------------------------------ the atlas API
get_downloaded_atlases == downloaded
get_atlases_lastversions == lastversions
get_all_atlases_lastversions == [a \in AllAtlases |-> "1.2"]

\* brainrender_napari.utils.formatting.format_atlas_name
format_atlas_name(atlas_name) ==
    CASE atlas_name = "allen_mouse_100um" -> "Allen mouse (100 μm)"
      [] atlas_name = "example_mouse_100um" -> "Example mouse (100 μm)"
      [] OTHER -> "No such (atlas μm)"

\* What a step reports in "last": the method or callback that ran, its
\* argument (for a slot, the atlas of the dialog that invoked it) and how
\* it ended.  Changes of the selection and of the dialogs leave NoCall.
Outcome(op, arg, out) == [op |-> op, arg |-> arg, out |-> out]
NoCall == Outcome("", "", "")

\* ---------------------------------------------------------------- the view
\* AtlasManagerView.__init__: neither cached attribute is assigned.
Init ==
    /\ downloaded \in SUBSET AllAtlases
    /\ lastversions \in [downloaded -> [updated : BOOLEAN]]
    /\ current = InvalidIndex
    /\ cached_downloaded_atlases = << >>
    /\ cached_atlas_versions = << >>
    /\ dialogs = EmptyBag
    /\ workers = EmptyBag
    /\ emitted = << >>
    /\ last = NoCall

\* The user (or a caller of setCurrentIndex) makes a row the current one.
setCurrentIndex(a) ==
    /\ current' = a
    /\ last' = NoCall
    /\ emitted' = << >>
    /\ UNCHANGED <<api, cache, dialogs, workers>>

\* selected_atlas_name without its assert: the data of whatever index is
\* the current one.
selected_atlas_name_unchecked == current

\* selected_atlas_name: asserts that the current index is valid.
selected_atlas_name == IF current = InvalidIndex THEN "AssertionError" ELSE current

\* The branch _on_row_double_clicked takes for atlas_name, given the cached
\* attributes: the action of the dialog it opens, "" when it opens none, or
\* the exception it raises.
row_double_clicked(atlas_name, cached_downloaded, cached_versions) ==
    IF cached_downloaded = << >> THEN "AttributeError"
    ELSE IF atlas_name \in cached_downloaded[1]
         THEN IF cached_versions = << >> THEN "AttributeError"
              ELSE IF atlas_name \notin DOMAIN cached_versions[1] THEN "KeyError"
              ELSE IF ~cached_versions[1][atlas_name].updated THEN "Update"
              ELSE ""
         ELSE "Download"

\* AtlasManagerDialog(atlas_name, action) followed by open().
AtlasManagerDialog(atlas_name, action) == [atlas_name |-> atlas_name, action |-> action]

_on_row_double_clicked ==
    /\ BagCardinality(workers) + BagCardinality(dialogs) < MaxWorkers
    /\ IF selected_atlas_name = "AssertionError"
       THEN /\ last' = Outcome("_on_row_double_clicked", "", "AssertionError")
            /\ UNCHANGED dialogs
       ELSE LET atlas_name == selected_atlas_name
                branch == row_double_clicked(atlas_name, cached_downloaded_atlases,
                                             cached_atlas_versions)
            IN  /\ last' = Outcome("_on_row_double_clicked", "", branch)
                /\ dialogs' = IF branch \in {"Update", "Download"}
                              THEN dialogs (+) SetToBag({AtlasManagerDialog(atlas_name, branch)})
                              ELSE dialogs
    /\ emitted' = << >>
    /\ UNCHANGED <<api, current, cache, workers>>

\* Dialog d is closed without its ok button being clicked.
DismissDialog(d) ==
    /\ BagIn(d, dialogs)
    /\ dialogs' = dialogs (-) SetToBag({d})
    /\ last' = NoCall
    /\ emitted' = << >>
    /\ UNCHANGED <<api, current, cache, workers>>

\* _start_worker that starts nothing while a worker for atlas_name runs.
start_worker_once(operation, atlas_name, signal, operation_type) ==
    /\ workers' = IF \E w \in BagToSet(workers) : w.atlas_name = atlas_name
                  THEN workers
                  ELSE workers (+) SetToBag({
                           [operation |-> operation, atlas_name |-> atlas_name,
                            signal |-> signal, operation_type |-> operation_type,
                            reported |-> << >>, relayed |-> << >>]})
    /\ UNCHANGED api

\* _start_worker that calls the operation itself instead of handing it to a
\* worker: the operation has run when the slot goes on.
start_worker_inline(operation, atlas_name, signal, operation_type) ==
    /\ downloaded' = downloaded \cup {atlas_name}
    /\ lastversions' = [a \in downloaded' |->
                           IF a = atlas_name THEN [updated |-> TRUE]
                           ELSE lastversions[a]]
    /\ UNCHANGED workers

\* _start_worker: the worker created by _apply_in_thread, with the closure
\* update_fn (atlas_name, operation_type) and the signal its return value
\* is re-emitted as, is started.  "reported" is what its operation has
\* passed to fn_update so far, "relayed" what update_fn has emitted for it.
\* The operation runs in the worker's thread, not in this call.
_start_worker(operation, atlas_name, signal, operation_type) ==
    /\ workers' = workers (+) SetToBag({
                      [operation |-> operation, atlas_name |-> atlas_name,
                       signal |-> signal, operation_type |-> operation_type,
                       reported |-> << >>, relayed |-> << >>]})
    /\ UNCHANGED api

\* _refresh_cached_atlases that forgets the second assignment.
refresh_downloaded_only ==
    /\ cached_downloaded_atlases' = <<get_downloaded_atlases>>
    /\ UNCHANGED cached_atlas_versions

\* _refresh_cached_atlases
_refresh_cached_atlases ==
    /\ cached_downloaded_atlases' = <<get_downloaded_atlases>>
    /\ cached_atlas_versions' = <<get_atlases_lastversions>>

\* _on_download_atlas_confirmed; dlg is the atlas of the dialog whose ok
\* button invoked the slot, "" when the slot is called directly.  The slot
\* is one step: the refresh reads the API as it is when the worker starts.
_on_download_atlas_confirmed(dlg) ==
    IF selected_atlas_name = "AssertionError"
    THEN /\ last' = Outcome("_on_download_atlas_confirmed", dlg, "AssertionError")
         /\ UNCHANGED <<workers, cache, api>>
    ELSE /\ _start_worker("install_atlas", selected_atlas_name,
                          "download_atlas_confirmed", "Downloading")
         /\ _refresh_cached_atlases
         /\ last' = Outcome("_on_download_atlas_confirmed", dlg, "started")

\* _on_update_atlas_confirmed
_on_update_atlas_confirmed(dlg) ==
    IF selected_atlas_name = "AssertionError"
    THEN /\ last' = Outcome("_on_update_atlas_confirmed", dlg, "AssertionError")
         /\ UNCHANGED <<workers, cache, api>>
    ELSE /\ _start_worker("update_atlas", selected_atlas_name,
                          "update_atlas_confirmed", "Updating")
         /\ _refresh_cached_atlases
         /\ last' = Outcome("_on_update_atlas_confirmed", dlg, "started")

\* The ok button of dialog d is clicked: the slot connected to it by
\* _on_row_double_clicked runs, and the dialog closes.
ClickOk(d) ==
    /\ BagIn(d, dialogs)
    /\ BagCardinality(workers) < MaxWorkers
    /\ IF d.action = "Update"
       THEN _on_update_atlas_confirmed(d.atlas_name)
       ELSE _on_download_atlas_confirmed(d.atlas_name)
    /\ dialogs' = dialogs (-) SetToBag({d})
    /\ emitted' = << >>
    /\ UNCHANGED current

\* The slots are called without a dialog: they are plain methods, and the
\* only code that assigns the cached attributes.
CallDownloadConfirmed ==
    /\ BagCardinality(workers) < MaxWorkers
    /\ _on_download_atlas_confirmed("")
    /\ emitted' = << >>
    /\ UNCHANGED <<current, dialogs>>

CallUpdateConfirmed ==
    /\ BagCardinality(workers) < MaxWorkers
    /\ _on_update_atlas_confirmed("")
    /\ emitted' = << >>
    /\ UNCHANGED <<current, dialogs>>

\* ------------------------------------------------------------- the workers
\* An emit that delivers the latest emission first.
emit_latest_first(log, emission) == <<emission>> \o log

\* Signal.emit: the emission follows the ones made before it.
emit(log, emission) == Append(log, emission)

\* update_fn that reports every operation as a download.
update_fn_downloading(w, completed, total) ==
    [signal |-> "progress_updated", completed |-> completed, total |-> total,
     atlas_name |-> w.atlas_name, operation_type |-> "Downloading",
     result |-> ""]

\* update_fn, the closure _start_worker passes as fn_update: the emission
\* of progress_updated it makes for worker w.
update_fn(w, completed, total) ==
    [signal |-> "progress_updated", completed |-> completed, total |-> total,
     atlas_name |-> w.atlas_name, operation_type |-> w.operation_type,
     result |-> ""]

\* The number of calls of fn_update the operations of the workers ws made.
RECURSIVE Calls(_)
Calls(ws) ==
    IF ws = {} THEN 0
    ELSE LET w == CHOOSE v \in ws : TRUE
         IN  workers[w] * Len(w.reported) + Calls(ws \ {w})

\* The operation running in worker w calls fn_update(completed, total): it
\* reports its next unit as completed.
ProgressCallback(w, completed, total) ==
    /\ BagIn(w, workers)
    /\ Calls(BagToSet(workers)) < MaxCalls
    /\ completed = Len(w.reported) + 1
    /\ emitted' = emit(<< >>, update_fn(w, completed, total))
    /\ workers' = (workers (-) SetToBag({w})) (+) SetToBag({
                      [w EXCEPT !.reported = Append(@, <<completed, total>>),
                                !.relayed = emit(@, update_fn(w, completed, total))]})
    /\ last' = Outcome("update_fn", "", "")
    /\ UNCHANGED <<api, current, cache, dialogs>>

\* What install_atlas / update_atlas return: the name of the atlas, or None
\* when the atlas was already installed / already up to date.
operation_result(operation, atlas_name) ==
    IF operation = "install_atlas"
    THEN IF atlas_name \in downloaded THEN "None" ELSE atlas_name
    ELSE IF atlas_name \in downloaded /\ ~lastversions[atlas_name].updated
         THEN atlas_name ELSE "None"

\* The lambda connected to worker.returned: signal.emit(result).
returned(w, result) ==
    [signal |-> w.signal, completed |-> 0, total |-> 0, atlas_name |-> "",
     operation_type |-> "", result |-> result]

\* A worker whose returned signal is emitted while its operation goes on.
worker_returned_early(w) ==
    /\ BagIn(w, workers)
    /\ downloaded' = downloaded \cup {w.atlas_name}
    /\ lastversions' = [a \in downloaded' |->
                           IF a = w.atlas_name THEN [updated |-> TRUE]
                           ELSE lastversions[a]]
    /\ emitted' = emit(<< >>, returned(w, operation_result(w.operation, w.atlas_name)))
    /\ last' = Outcome("returned", "", "")
    /\ UNCHANGED <<current, cache, dialogs, workers>>

\* _apply_in_thread: apply(*args, **kwargs) returns in worker w, having
\* installed (install_atlas) or brought up to date (update_atlas) the atlas;
\* the worker emits returned(result) and is done.
WorkerReturned(w) ==
    /\ BagIn(w, workers)
    /\ downloaded' = downloaded \cup {w.atlas_name}
    /\ lastversions' = [a \in downloaded' |->
                           IF a = w.atlas_name THEN [updated |-> TRUE]
                           ELSE lastversions[a]]
    /\ emitted' = emit(<< >>, returned(w, operation_result(w.operation, w.atlas_name)))
    /\ workers' = workers (-) SetToBag({w})
    /\ last' = Outcome("returned", "", "")
    /\ UNCHANGED <<current, cache, dialogs>>

\* A view that re-emits the worker's signal also when the operation raises.
errored_emits_confirmed(w) ==
    /\ BagIn(w, workers)
    /\ workers' = workers (-) SetToBag({w})
    /\ emitted' = emit(<< >>, [signal |-> w.signal, completed |-> 0, total |-> 0,
                               atlas_name |-> "", operation_type |-> "",
                               result |-> "None"])
    /\ last' = Outcome("errored", "", "")
    /\ UNCHANGED <<api, current, cache, dialogs>>

\* The operation raises in worker w: nothing is connected to worker.errored.
WorkerErrored(w) ==
    /\ BagIn(w, workers)
    /\ workers' = workers (-) SetToBag({w})
    /\ emitted' = << >>
    /\ last' = Outcome("errored", "", "")
    /\ UNCHANGED <<api, current, cache, dialogs>>

\* ------------------------------------------------------------- the tooltip
\* get_tooltip_text that looks the name up among all atlases first.
tooltip_all_atlases_first(atlas_name) ==
    IF atlas_name \in DOMAIN get_all_atlases_lastversions
    THEN format_atlas_name(atlas_name) \o " (double-click to download)"
    ELSE IF atlas_name \in get_downloaded_atlases
         THEN IF get_atlases_lastversions[atlas_name].updated
              THEN format_atlas_name(atlas_name) \o " is up-to-date"
              ELSE format_atlas_name(atlas_name) \o " (double-click to update)"
         ELSE "ValueError"

\* get_tooltip_text whose last branch does not raise.
tooltip_never_raises(atlas_name) ==
    IF atlas_name \in get_downloaded_atlases
    THEN IF get_atlases_lastversions[atlas_name].updated
         THEN format_atlas_name(atlas_name) \o " is up-to-date"
         ELSE format_atlas_name(atlas_name) \o " (double-click to update)"
    ELSE format_atlas_name(atlas_name) \o " (double-click to download)"

\* get_tooltip_text: the text, or the exception raised.
get_tooltip_text(atlas_name) ==
    IF atlas_name \in get_downloaded_atlases
    THEN IF get_atlases_lastversions[atlas_name].updated
         THEN format_atlas_name(atlas_name) \o " is up-to-date"
         ELSE format_atlas_name(atlas_name) \o " (double-click to update)"
    ELSE IF atlas_name \in DOMAIN get_all_atlases_lastversions
         THEN format_atlas_name(atlas_name) \o " (double-click to download)"
         ELSE "ValueError"

GetTooltipText(atlas_name) ==
    /\ last' = Outcome("get_tooltip_text", atlas_name, get_tooltip_text(atlas_name))
    /\ emitted' = << >>
    /\ UNCHANGED <<api, current, cache, dialogs, workers>>

\* ----------------------------------------------------------- specification
Next ==
    \/ \E a \in AllAtlases : setCurrentIndex(a)
    \/ _on_row_double_clicked
    \/ \E d \in BagToSet(dialogs) : DismissDialog(d)
    \/ \E d \in BagToSet(dialogs) : ClickOk(d)
    \/ CallDownloadConfirmed
    \/ CallUpdateConfirmed
    \/ \E w \in BagToSet(workers), c \in 1..MaxCalls : ProgressCallback(w, c, MaxCalls)
    \/ \E w \in BagToSet(workers) : WorkerReturned(w)
    \/ \E w \in BagToSet(workers) : WorkerErrored(w)

Spec == Init /\ [][Next]_vars

\* get_tooltip_text is a class method that queries the atlas API: it is
\* called for every name while the operations the view starts change what
\* the API answers.
NextTooltip ==
    \/ \E a \in AllAtlases : setCurrentIndex(a)
    \/ CallDownloadConfirmed
    \/ CallUpdateConfirmed
    \/ \E w \in BagToSet(workers) : WorkerReturned(w)
    \/ \E a \in AtlasNames : GetTooltipText(a)

TooltipSpec == Init /\ [][NextTooltip]_vars

\* ------------------------------------------------------------------ claims
\* The slots a dialog's ok button is connected to.
ConfirmSlots == {"_on_download_atlas_confirmed", "_on_update_atlas_confirmed"}

\* The step is a double-click on the row of atlas a.
DoubleClickOn(a) == last'.op = "_on_row_double_clicked" /\ current = a

\* The step is the click on the ok button of the open dialog d.
ClickedOk(d) ==
    /\ last'.op \in ConfirmSlots
    /\ last'.arg = d.atlas_name
    /\ dialogs' = dialogs (-) SetToBag({d})

\* The step is the return of the operation of the running worker w.
Returned(w) == last'.op = "returned" /\ workers' = workers (-) SetToBag({w})

\* The step starts exactly one worker, and it runs operation on an atlas in as.
StartsOne(operation, as) ==
    \E w \in BagToSet(workers') :
        /\ w.operation = operation
        /\ w.atlas_name \in as
        /\ w.reported = << >>
        /\ workers' = workers (+) SetToBag({w})

\* The step emits exactly one signal, it is signal, and it carries result.
EmitsOne(signal, result) ==
    /\ Len(emitted') = 1
    /\ emitted'[1].signal = signal
    /\ emitted'[1].result = result

\* C1: a double-click on the row of an atlas that is not downloaded opens a
\* Download dialog for it; the click on that dialog's ok button starts
\* exactly one install_atlas worker, for that atlas; the return of that
\* worker's operation emits exactly one signal, download_atlas_confirmed,
\* with the value install_atlas returned.
C1_DownloadFlow ==
    [][ /\ \A a \in AllAtlases :
            (DoubleClickOn(a) /\ a \notin downloaded)
                => dialogs' = dialogs (+) SetToBag({AtlasManagerDialog(a, "Download")})
        /\ \A d \in BagToSet(dialogs) :
            (d.action = "Download" /\ ClickedOk(d))
                => StartsOne("install_atlas", {d.atlas_name})
        /\ \A w \in BagToSet(workers) :
            (w.operation = "install_atlas" /\ Returned(w))
                => EmitsOne("download_atlas_confirmed",
                            operation_result("install_atlas", w.atlas_name))
      ]_vars

\* C2: a double-click on the row of an atlas that is downloaded and not up
\* to date opens an Update dialog for it; the click on that dialog's ok
\* button starts exactly one update_atlas worker; the return of that
\* worker's operation emits exactly one signal, update_atlas_confirmed.
C2_UpdateFlow ==
    [][ /\ \A a \in AllAtlases :
            (DoubleClickOn(a) /\ a \in downloaded /\ ~lastversions[a].updated)
                => dialogs' = dialogs (+) SetToBag({AtlasManagerDialog(a, "Update")})
        /\ \A d \in BagToSet(dialogs) :
            (d.action = "Update" /\ ClickedOk(d))
                => StartsOne("update_atlas", AllAtlases)
        /\ \A w \in BagToSet(workers) :
            (w.operation = "update_atlas" /\ Returned(w))
                => EmitsOne("update_atlas_confirmed",
                            operation_result("update_atlas", w.atlas_name))
      ]_vars

\* C3: a double-click on the row of an atlas that is downloaded and up to
\* date opens no dialog, starts no worker and emits no signal.
C3_UpToDateNoDialog ==
    [][ \A a \in AllAtlases :
            (DoubleClickOn(a) /\ a \in downloaded /\ lastversions[a].updated)
                => /\ dialogs' = dialogs
                   /\ workers' = workers
                   /\ emitted' = << >>
      ]_vars

\* The operation_type the view announces for an operation.
KindOf(operation) == IF operation = "install_atlas" THEN "Downloading" ELSE "Updating"

\* The progress_updated emission that relays the report rep of worker w.
Relay(w, rep) ==
    [signal |-> "progress_updated", completed |-> rep[1], total |-> rep[2],
     atlas_name |-> w.atlas_name, operation_type |-> KindOf(w.operation),
     result |-> ""]

\* How often x occurs in the sequence seq.
Count(seq, x) == Cardinality({k \in DOMAIN seq : seq[k] = x})

\* C4: for every running worker, each call of fn_update(c, t) by its
\* operation has produced exactly one progress_updated emission, carrying
\* (c, t, the worker's atlas, "Downloading" for install_atlas and "Updating"
\* for update_atlas), and nothing else has been emitted for it; a
\* progress_updated emitted by a step relays the latest report of a worker.
C4_ProgressRelay ==
    /\ \A w \in BagToSet(workers) :
        /\ Len(w.relayed) = Len(w.reported)
        /\ \A k \in DOMAIN w.reported :
            Count(w.relayed, Relay(w, w.reported[k])) = Count(w.reported, w.reported[k])
    /\ \A i \in DOMAIN emitted :
        emitted[i].signal = "progress_updated"
            => /\ Len(emitted) = 1
               /\ last.op = "update_fn"
               /\ \E w \in BagToSet(workers) :
                    /\ w.reported # << >>
                    /\ emitted[i] = Relay(w, w.reported[Len(w.reported)])
    /\ last.op = "update_fn" => Len(emitted) = 1 /\ emitted[1].signal = "progress_updated"

\* C4 witness: an install and an update run at once, and a progress call of
\* the update has just been relayed.
C4_Witness ==
    /\ last.op = "update_fn"
    /\ emitted # << >>
    /\ emitted[1].operation_type = "Updating"
    /\ \E w \in BagToSet(workers) : w.operation = "install_atlas" /\ w.reported # << >>
    /\ \E w \in BagToSet(workers) : w.operation = "update_atlas" /\ w.reported # << >>

\* C5: for a name the API knows, get_tooltip_text returns the formatted name
\* followed by " is up-to-date" when the atlas is downloaded and updated, by
\* " (double-click to update)" when it is downloaded and not updated, and by
\* " (double-click to download)" when it is not downloaded but among all the
\* atlases; the downloaded set is tested first.
C5_TooltipText ==
    (last.op = "get_tooltip_text"
        /\ last.arg \in downloaded \cup DOMAIN get_all_atlases_lastversions)
        => last.out =
             format_atlas_name(last.arg) \o
                (CASE last.arg \in downloaded /\ lastversions[last.arg].updated
                        -> " is up-to-date"
                   [] last.arg \in downloaded /\ ~lastversions[last.arg].updated
                        -> " (double-click to update)"
                   [] OTHER -> " (double-click to download)")

\* C5 witness: the tooltip of an atlas that an operation started by the view
\* has installed since the view last refreshed its cache.
C5_Witness ==
    /\ last.op = "get_tooltip_text"
    /\ last.arg \in downloaded
    /\ cached_downloaded_atlases = << {} >>
    /\ last.out = format_atlas_name(last.arg) \o " is up-to-date"

\* C6: for a name that is neither downloaded nor among all the atlases,
\* get_tooltip_text raises ValueError instead of returning a text, and the
\* call changes neither the cached attributes nor the state of the API.
C6_TooltipUnknown ==
    [][ (last'.op = "get_tooltip_text"
            /\ last'.arg \notin downloaded \cup DOMAIN get_all_atlases_lastversions)
            => /\ last'.out = "ValueError"
               /\ UNCHANGED <<cache, api>>
      ]_vars

\* C6 witness: the tooltip of an unknown name was asked for, with the cache set.
C6_Witness ==
    /\ last.op = "get_tooltip_text"
    /\ last.arg \in UnknownAtlases
    /\ last.out = "ValueError"
    /\ cached_downloaded_atlases # << >>

\* C7: for every running worker, the progress_updated emissions made for it
\* carry the (completed, total) pairs its operation reported, in the order
\* in which it reported them.
C7_ProgressOrder ==
    \A w \in BagToSet(workers) :
        [k \in DOMAIN w.relayed |-> <<w.relayed[k].completed, w.relayed[k].total>>]
            = w.reported

\* C7 witness: an operation has reported twice.
C7_Witness ==
    \E w \in BagToSet(workers) :
        /\ Len(w.relayed) >= 2
        /\ w.relayed[1].completed # w.relayed[2].completed

\* The cached attributes hold what the API answers now.
CacheIsFresh ==
    /\ cached_downloaded_atlases = <<get_downloaded_atlases>>
    /\ cached_atlas_versions = <<get_atlases_lastversions>>

\* C8: when the operation of a worker returns, the view emits the worker's
\* signal and the cached attributes then hold what the API answers.
C8_RefreshOnCompletion ==
    [][ \A w \in BagToSet(workers) :
            Returned(w) => /\ EmitsOne(w.signal, operation_result(w.operation, w.atlas_name))
                           /\ CacheIsFresh'
      ]_vars

Running(a) ==
    LET ws == {w \in BagToSet(workers) : w.atlas_name = a}
        F[S \in SUBSET ws] ==
            IF S = {} THEN 0
            ELSE LET w == CHOOSE v \in S : TRUE IN workers[w] + F[S \ {w}]
    IN  F[ws]

\* C10: a slot that finds a valid selection starts a worker for the selected
\* atlas whether or not a worker for that atlas is already running.
C10_NoDoubleStartGuard ==
    [][ (last'.op \in ConfirmSlots /\ last'.out = "started")
            => Running(current)' = Running(current) + 1
      ]_vars

\* C10 witness: the ok button of a second dialog for an atlas has just been
\* clicked while the worker started for it before is still running.
C10_Witness ==
    /\ last.op \in ConfirmSlots
    /\ last.arg # ""
    /\ last.out = "started"
    /\ current = last.arg
    /\ Running(last.arg) >= 2

\* The signals that re-emit the return value of an operation.
ConfirmedSignals == {"download_atlas_confirmed", "update_atlas_confirmed"}

\* C11: the state of the API changes only in the step in which the
\* operation of a running worker returns; a slot that starts a worker
\* leaves the API as it is and the worker it started running.
C11_OperationsOnlyInWorkers ==
    [][ /\ api' # api => \E w \in BagToSet(workers) : Returned(w)
        /\ (last'.op \in ConfirmSlots /\ last'.out = "started")
              => /\ api' = api
                 /\ \E w \in BagToSet(workers') :
                       /\ w.atlas_name = current
                       /\ workers' = workers (+) SetToBag({w})
      ]_vars

\* C11 witness: the download slot has returned while the installation it
\* started has not been done.
C11_Witness ==
    /\ last.op = "_on_download_atlas_confirmed"
    /\ last.out = "started"
    /\ current \notin downloaded
    /\ \E w \in BagToSet(workers) :
          w.operation = "install_atlas" /\ w.atlas_name = current

\* The handlers that call selected_atlas_name.
SelectionHandlers == ConfirmSlots \cup {"_on_row_double_clicked"}

\* C12: while the current index is not valid, the double-click handler and
\* both slots end with AssertionError, open no dialog, start no worker,
\* emit nothing and leave the cached attributes as they are.
C12_InvalidSelectionAsserts ==
    [][ (current = InvalidIndex /\ last'.op \in SelectionHandlers)
            => /\ last'.out = "AssertionError"
               /\ \A d \in BagToSet(dialogs') : CopiesIn(d, dialogs') <= CopiesIn(d, dialogs)
               /\ workers' = workers
               /\ emitted' = << >>
               /\ UNCHANGED cache
      ]_vars

\* C12 witness: the update slot has just failed on the assertion.
C12_Witness ==
    /\ current = InvalidIndex
    /\ last.op = "_on_update_atlas_confirmed"
    /\ last.out = "AssertionError"
    /\ workers = EmptyBag

\* C13: a signal of ConfirmedSignals is emitted only in the step in which
\* the operation of a worker returns, and carries what it returned; the
\* step in which an operation raises emits nothing, starts no worker and
\* leaves the cached attributes as they are.
C13_ConfirmedOnlyOnReturn ==
    [][ /\ \A i \in DOMAIN emitted' :
            emitted'[i].signal \in ConfirmedSignals
                => \E w \in BagToSet(workers) :
                      /\ Returned(w)
                      /\ EmitsOne(w.signal, operation_result(w.operation, w.atlas_name))
        /\ last'.op = "errored"
              => /\ emitted' = << >>
                 /\ UNCHANGED cache
                 /\ \E w \in BagToSet(workers) : workers' = workers (-) SetToBag({w})
      ]_vars

\* C13 witness: an operation has just raised, after the slot that started
\* it refreshed the cache.
C13_Witness ==
    /\ last.op = "errored"
    /\ emitted = << >>
    /\ cached_downloaded_atlases # << >>

\* C14: the double-click handler never fails on a cached attribute that
\* was not set, nor on an atlas that the cached downloaded atlases contain
\* and the cached versions do not.
C14_CacheDefinedOnDoubleClick ==
    last.op = "_on_row_double_clicked"
        => last.out \notin {"AttributeError", "KeyError"}

\* The operation that the ok button of a dialog with this action stands for.
OperationOf(action) == IF action = "Download" THEN "install_atlas" ELSE "update_atlas"

\* C15: the click on the ok button of an open dialog starts exactly one
\* worker, running install_atlas for a Download dialog and update_atlas
\* for an Update dialog, on the atlas the dialog was opened for.
C15_DialogAtlasIsStarted ==
    [][ \A d \in BagToSet(dialogs) :
            ClickedOk(d) => StartsOne(OperationOf(d.action), {d.atlas_name})
      ]_vars

\* C16: for every atlas, a double-click on its row opens an Update dialog
\* exactly when its tooltip ends in "(double-click to update)", a Download
\* dialog exactly when it ends in "(double-click to download)", and no
\* dialog exactly when it ends in "is up-to-date".
C16_TooltipAgreesWithDoubleClick ==
    \A a \in AllAtlases :
        LET branch == row_double_clicked(a, cached_downloaded_atlases,
                                         cached_atlas_versions)
            text == get_tooltip_text(a)
        IN  /\ branch = "Update"
                <=> text = format_atlas_name(a) \o " (double-click to update)"
            /\ branch = "Download"
                <=> text = format_atlas_name(a) \o " (double-click to download)"
            /\ branch \notin {"Update", "Download"}
                <=> text = format_atlas_name(a) \o " is up-to-date"

\* C17: the step in which the operation of a worker returns emits that
\* worker's signal once and nothing else, ends the worker, and finds every
\* report of the worker relayed already; a progress_updated is emitted
\* only for a worker that runs before and after the step.
C17_ConfirmedOnceAfterProgress ==
    [][ /\ last'.op = "returned"
            => \E w \in BagToSet(workers) :
                  /\ workers' = workers (-) SetToBag({w})
                  /\ emitted' = << returned(w, operation_result(w.operation, w.atlas_name)) >>
                  /\ w.relayed = [k \in DOMAIN w.reported |-> Relay(w, w.reported[k])]
        /\ \A i \in DOMAIN emitted' :
            emitted'[i].signal = "progress_updated"
                => \E w \in BagToSet(workers) :
                      LET after == [w EXCEPT
                                      !.reported = Append(@, <<emitted'[i].completed,
                                                               emitted'[i].total>>),
                                      !.relayed = Append(@, emitted'[i])]
                      IN  /\ emitted'[i].atlas_name = w.atlas_name
                          /\ workers' = (workers (-) SetToBag({w})) (+) SetToBag({after})
      ]_vars

\* C17 witness: an operation has just returned and its signal is the one
\* emission of the step, while another worker has relayed progress and
\* still runs.
C17_Witness ==
    /\ last.op = "returned"
    /\ Len(emitted) = 1
    /\ emitted[1].signal \in ConfirmedSignals
    /\ emitted[1].result # "None"
    /\ \E w \in BagToSet(workers) : w.relayed # << >>

====
